---------------------------- MODULE Spec2Model ----------------------------
(***************************************************************************)
(* Model of losses/bregman_pytorch.py: the three Sinkhorn solvers          *)
(* sinkhorn_knopp, sinkhorn_stabilized and sinkhorn_epsilon_scaling.       *)
(*                                                                         *)
(* Numbers.  The tensors of the program hold IEEE floating-point numbers.  *)
(* The model keeps the two scales the program works in apart:              *)
(*   - the multiplicative scale (a, b, u, v, K, P, tau, stopThr, err) is   *)
(*     a binary floating-point format with a one-bit significand: the      *)
(*     values are 0, +-2^e (MinExp <= e <= MaxExp), +-inf and NaN, and     *)
(*     every operation rounds toward zero, overflows to inf and            *)
(*     underflows to 0 as IEEE arithmetic does;                            *)
(*   - the additive scale (C, reg, alpha, beta, running_reg) is the        *)
(*     integers with -inf, +inf and NaN, in units of ln 2, so that         *)
(*     torch.exp and torch.log carry one scale into the other:             *)
(*     exp(n) = 2^n, log(2^e) = e, log(0) = -inf.                          *)
(***************************************************************************)
EXTENDS Integers, Sequences, FiniteSets, TLC

----------------------------------------------------------------------------
(* Floating-point format of the multiplicative scale *)

\* largest and smallest binary exponent (float32: 2^127, 2^-149)
MaxExp == 127
MinExp == 149

FZero == [k |-> "zero", s |-> 1, e |-> 0]
FNaN == [k |-> "nan", s |-> 1, e |-> 0]
FInf(s) == [k |-> "inf", s |-> s, e |-> 0]

\* s * 2^e, overflowing to inf and underflowing to 0
Fl(s, e) ==
  IF e > MaxExp THEN FInf(s)
  ELSE IF e < -MinExp THEN FZero
  ELSE [k |-> "fin", s |-> s, e |-> e]

Pow2(e) == Fl(1, e)

FNeg(x) == IF x.k \in {"fin", "inf"} THEN [x EXCEPT !.s = -x.s] ELSE x

FAbs(x) == IF x.k \in {"fin", "inf"} THEN [x EXCEPT !.s = 1] ELSE x

IMax(m, n) == IF m >= n THEN m ELSE n

\* x + y, rounded toward zero
FAdd(x, y) ==
  IF x.k = "nan" \/ y.k = "nan" THEN FNaN
  ELSE IF x.k = "inf" /\ y.k = "inf" THEN (IF x.s = y.s THEN x ELSE FNaN)
  ELSE IF x.k = "inf" THEN x
  ELSE IF y.k = "inf" THEN y
  ELSE IF x.k = "zero" THEN y
  ELSE IF y.k = "zero" THEN x
  ELSE IF x.s = y.s
    THEN (IF x.e = y.e THEN Fl(x.s, x.e + 1) ELSE Fl(x.s, IMax(x.e, y.e)))
    ELSE (IF x.e = y.e THEN FZero
          ELSE Fl(IF x.e > y.e THEN x.s ELSE y.s, IMax(x.e, y.e) - 1))

FSub(x, y) == FAdd(x, FNeg(y))

FMul(x, y) ==
  IF x.k = "nan" \/ y.k = "nan" THEN FNaN
  ELSE IF x.k = "zero" THEN (IF y.k = "inf" THEN FNaN ELSE FZero)
  ELSE IF y.k = "zero" THEN (IF x.k = "inf" THEN FNaN ELSE FZero)
  ELSE IF x.k = "inf" \/ y.k = "inf" THEN FInf(x.s * y.s)
  ELSE Fl(x.s * y.s, x.e + y.e)

FDiv(x, y) ==
  IF x.k = "nan" \/ y.k = "nan" THEN FNaN
  ELSE IF x.k = "zero" THEN (IF y.k = "zero" THEN FNaN ELSE FZero)
  ELSE IF x.k = "inf" THEN (IF y.k = "inf" THEN FNaN ELSE FInf(x.s * y.s))
  ELSE IF y.k = "inf" THEN FZero
  ELSE IF y.k = "zero" THEN FInf(x.s)
  ELSE Fl(x.s * y.s, x.e - y.e)

\* x > y; false when either is NaN
FGt(x, y) ==
  LET d == FSub(x, y) IN d.k \in {"fin", "inf"} /\ d.s = 1

\* x >= 0; false for NaN
FGeZero(x) == x.k = "zero" \/ (x.k \in {"fin", "inf"} /\ x.s = 1)

FIsNaN(x) == x.k = "nan"

FIsInf(x) == x.k = "inf"

----------------------------------------------------------------------------
(* The additive scale *)

LFin(n) == [k |-> "fin", n |-> n]
LInf(s) == [k |-> "inf", n |-> s]
LNaN == [k |-> "nan", n |-> 0]

LAdd(x, y) ==
  IF x.k = "nan" \/ y.k = "nan" THEN LNaN
  ELSE IF x.k = "inf" /\ y.k = "inf" THEN (IF x.n = y.n THEN x ELSE LNaN)
  ELSE IF x.k = "inf" THEN x
  ELSE IF y.k = "inf" THEN y
  ELSE LFin(x.n + y.n)

LNeg(x) == IF x.k = "nan" THEN x ELSE [x EXCEPT !.n = -x.n]

\* reg * x for a number reg > 0 of the additive scale
LScale(reg, x) == IF x.k = "fin" THEN LFin(reg * x.n) ELSE x

\* x / reg for reg > 0, rounded down to the unit of the scale
LDivReg(x, reg) == IF x.k = "fin" THEN LFin(x.n \div reg) ELSE x

\* torch.exp
FExp(x) ==
  IF x.k = "nan" THEN FNaN
  ELSE IF x.k = "inf" THEN (IF x.n = 1 THEN FInf(1) ELSE FZero)
  ELSE Fl(1, x.n)

\* torch.log
FLog(x) ==
  IF x.k = "nan" THEN LNaN
  ELSE IF x.k = "zero" THEN LInf(-1)
  ELSE IF x.s = -1 THEN LNaN
  ELSE IF x.k = "inf" THEN LInf(1)
  ELSE LFin(x.e)

RECURSIVE ILog2(_)
\* floor(log2 n) for n >= 1
ILog2(n) == IF n <= 1 THEN 0 ELSE 1 + ILog2(n \div 2)

\* a number of the additive scale read as a factor of a product with
\* numbers of the multiplicative scale
FOfL(x) ==
  IF x.k = "nan" THEN FNaN
  ELSE IF x.k = "inf" THEN FInf(x.n)
  ELSE IF x.n = 0 THEN FZero
  ELSE IF x.n > 0 THEN Fl(1, ILog2(x.n))
  ELSE Fl(-1, ILog2(-x.n))

----------------------------------------------------------------------------
(* Tensors: a vector is a sequence of numbers, a matrix a sequence of rows *)

\* M_EPS = 1e-16 lies in [2^-54, 2^-53); rounded toward zero it is 2^-MEpsExp
MEpsExp == 54
M_EPS == Pow2(-MEpsExp)

Vec(n, x) == [i \in 1..n |-> x]

\* C.shape
ShapeOf(M) == <<Len(M), IF Len(M) = 0 THEN 0 ELSE Len(M[1])>>

RECURSIVE FSumTo(_, _)
\* f[1] + ... + f[n], added in order
FSumTo(f, n) == IF n = 0 THEN FZero ELSE FAdd(FSumTo(f, n - 1), f[n])

FSum(f) == FSumTo(f, Len(f))

\* torch.matmul(u, K): the vector u^T K
VecMat(uu, KK) ==
  LET sh == ShapeOf(KK) IN
  [j \in 1..sh[2] |-> FSum([i \in 1..sh[1] |-> FMul(uu[i], KK[i][j])])]

\* torch.matmul(K, v): the vector K v
MatVec(KK, vv) ==
  LET sh == ShapeOf(KK) IN
  [i \in 1..sh[1] |-> FSum([j \in 1..sh[2] |-> FMul(KK[i][j], vv[j])])]

\* torch.div(x, y + M_EPS), elementwise
DivEps(x, y) == [i \in 1..Len(x) |-> FDiv(x[i], FAdd(y[i], M_EPS))]

\* torch.log(x + M_EPS), elementwise
LogEps(x) == [i \in 1..Len(x) |-> FLog(FAdd(x[i], M_EPS))]

RECURSIVE CeilLog2(_)
\* the least k with 2^k >= n, for n >= 1
CeilLog2(n) == IF n <= 1 THEN 0 ELSE 1 + CeilLog2((n + 1) \div 2)

\* torch.ones(n) / n: 1/n rounded toward zero
Uniform(n) == Vec(n, Pow2(-CeilLog2(n)))

\* the test without the isinf half
AnyNaNOrInf_NaNOnly(x) == \E i \in 1..Len(x) : FIsNaN(x[i])

\* torch.any(torch.isnan(x)) or torch.any(torch.isinf(x))
AnyNaNOrInf(x) == \E i \in 1..Len(x) : FIsNaN(x[i]) \/ FIsInf(x[i])

\* the assertions without the one on the sign of a and b
PreconditionsHold_NoSign(A) ==
  LET sh == ShapeOf(A.C) IN
  /\ sh[1] >= 1 /\ sh[2] >= 1
  /\ sh[1] = Len(A.a) /\ sh[2] = Len(A.b)
  /\ A.reg > 0

\* the four assertions that open each of the three solvers
PreconditionsHold(A) ==
  LET sh == ShapeOf(A.C) IN
  /\ sh[1] >= 1 /\ sh[2] >= 1
  /\ sh[1] = Len(A.a) /\ sh[2] = Len(A.b)
  /\ A.reg > 0
  /\ \A i \in 1..Len(A.a) : FGeZero(A.a[i])
  /\ \A j \in 1..Len(A.b) : FGeZero(A.b[j])

\* (b - b_hat).pow(2).sum()
SquaredResidual(bb, b_hat) ==
  FSum([j \in 1..Len(bb) |->
         LET d == FSub(bb[j], b_hat[j]) IN FMul(d, d)])

\* sinkhorn_knopp: K = exp(C / -reg)
GibbsKernel(CC, reg) ==
  [i \in 1..Len(CC) |-> [j \in 1..Len(CC[i]) |->
     FExp(LDivReg(LNeg(LFin(CC[i][j])), reg))]]

\* u.reshape(-1, 1) * K * v.reshape(1, -1)
ScaledPlan(uu, KK, vv) ==
  [i \in 1..Len(KK) |-> [j \in 1..Len(KK[i]) |->
     FMul(FMul(uu[i], KK[i][j]), vv[j])]]

\* torch.matmul(u, K) * v
ColumnMarginal(uu, KK, vv) ==
  LET uK == VecMat(uu, KK) IN [j \in 1..Len(vv) |-> FMul(uK[j], vv[j])]

\* reg * torch.log(x + M_EPS)
RegLog(reg, x) == [i \in 1..Len(x) |-> LScale(reg, LogEps(x)[i])]

----------------------------------------------------------------------------
(* State *)

VARIABLES
  args,         \* the arguments of the call under way
  status,       \* "running", "returned", or the exception the call raised
  out,          \* the lines printed so far
  calln,        \* 1 for the first call on the inputs, 2 for the second
  first,        \* << >>, or the outcome of the first call once a second began
  \* frame of sinkhorn_epsilon_scaling
  opc, oit, oerr, running_reg, scaling_coef, owarm, olog, oP, ilog, nsolves,
  \* frame of sinkhorn_knopp / sinkhorn_stabilized
  sargs, pc, it, err, u, v, upre, vpre, alpha, beta, K, P, ab_updated, log

drvVars == <<args, status, out, calln, first>>
outerVars == <<opc, oit, oerr, running_reg, scaling_coef, owarm, olog, oP,
               ilog, nsolves>>
solverVars == <<sargs, pc, it, err, u, v, upre, vpre, alpha, beta, K, P,
                ab_updated, log>>
vars == <<drvVars, outerVars, solverVars>>

\* log = False
NoLog == [on |-> FALSE, err |-> << >>, u |-> << >>, v |-> << >>,
          alpha |-> << >>, beta |-> << >>]

\* log = {'err': []}
NewLog == [NoLog EXCEPT !.on = TRUE]

----------------------------------------------------------------------------
(* sinkhorn_knopp *)

\* assertions
K_Assert ==
  /\ pc = "entry" /\ sargs.method = "sinkhorn_knopp"
  /\ IF PreconditionsHold(sargs)
       THEN pc' = "setup" /\ status' = status
       ELSE pc' = "raised" /\ status' = "AssertionError"
  /\ UNCHANGED <<args, out, calln, first, outerVars, sargs, it, err, u, v,
                 upre, vpre, alpha, beta, K, P, ab_updated, log>>

\* log, warm start, kernel, it = 1, err = 1
K_Setup ==
  /\ pc = "setup" /\ sargs.method = "sinkhorn_knopp"
  /\ log' = IF sargs.log THEN NewLog ELSE NoLog
  /\ IF sargs.warm_start # << >>
       THEN u' = sargs.warm_start[1].u /\ v' = sargs.warm_start[1].v
       ELSE u' = Uniform(Len(sargs.C)) /\ v' = Uniform(Len(sargs.C[1]))
  /\ K' = GibbsKernel(sargs.C, sargs.reg)
  /\ it' = 1
  /\ err' = Pow2(0)
  /\ pc' = "loop"
  /\ UNCHANGED <<drvVars, outerVars, sargs, upre, vpre, alpha, beta, P,
                 ab_updated>>

\* while (err > stopThr and it <= maxIter)
K_While ==
  /\ pc = "loop" /\ sargs.method = "sinkhorn_knopp"
  /\ pc' = IF FGt(err, sargs.stopThr) /\ it <= sargs.maxIter
             THEN "update" ELSE "post"
  /\ UNCHANGED <<drvVars, outerVars, sargs, it, err, u, v, upre, vpre, alpha,
                 beta, K, P, ab_updated, log>>

\* upre, vpre = u, v; v = b / (K^T u + eps); u = a / (K v + eps)
K_Update ==
  /\ pc = "update" /\ sargs.method = "sinkhorn_knopp"
  /\ upre' = u /\ vpre' = v
  /\ v' = DivEps(sargs.b, VecMat(u, K))
  /\ u' = DivEps(sargs.a, MatVec(K, v'))
  /\ pc' = "nancheck"
  /\ UNCHANGED <<drvVars, outerVars, sargs, it, err, alpha, beta, K, P,
                 ab_updated, log>>

\* the numerical-error test, its warning, the roll-back and the break
K_NanCheck ==
  /\ pc = "nancheck" /\ sargs.method = "sinkhorn_knopp"
  /\ IF AnyNaNOrInf(u) \/ AnyNaNOrInf(v)
       THEN /\ out' = Append(out, [line |-> "warning", it |-> it])
            /\ u' = upre /\ v' = vpre
            /\ pc' = "post"
       ELSE /\ pc' = "eval"
            /\ UNCHANGED <<out, u, v>>
  /\ UNCHANGED <<args, status, calln, first, outerVars, sargs, it, err, upre,
                 vpre, alpha, beta, K, P, ab_updated, log>>

\* the evaluation paced by print_freq
EvalDue_PrintFreq == log.on /\ it % sargs.print_freq = 0

\* if log and it % eval_freq == 0
EvalDue == log.on /\ it % sargs.eval_freq = 0

\* if verbose and it % print_freq == 0
PrintDue == sargs.verbose /\ it % sargs.print_freq = 0

\* the residual, every eval_freq iterations
K_Eval ==
  /\ pc = "eval" /\ sargs.method = "sinkhorn_knopp"
  /\ IF EvalDue
       THEN LET e == SquaredResidual(sargs.b, ColumnMarginal(u, K, v)) IN
            /\ err' = e
            /\ log' = [log EXCEPT !.err = Append(@, e)]
       ELSE UNCHANGED <<err, log>>
  /\ pc' = "print"
  /\ UNCHANGED <<drvVars, outerVars, sargs, it, u, v, upre, vpre, alpha, beta,
                 K, P, ab_updated>>

\* the progress line, every print_freq iterations
K_Print ==
  /\ pc = "print" /\ sargs.method = "sinkhorn_knopp"
  /\ out' = IF PrintDue THEN Append(out, [line |-> "iteration", it |-> it])
            ELSE out
  /\ pc' = "incr"
  /\ UNCHANGED <<args, status, calln, first, outerVars, sargs, it, err, u, v,
                 upre, vpre, alpha, beta, K, P, ab_updated, log>>

\* it += 1
K_Incr ==
  /\ pc = "incr" /\ sargs.method = "sinkhorn_knopp"
  /\ it' = it + 1
  /\ pc' = "loop"
  /\ UNCHANGED <<drvVars, outerVars, sargs, err, u, v, upre, vpre, alpha,
                 beta, K, P, ab_updated, log>>

\* the log's u, v, alpha, beta; the plan; return
K_Finish ==
  /\ pc = "post" /\ sargs.method = "sinkhorn_knopp"
  /\ log' = IF log.on
              THEN [log EXCEPT !.u = u, !.v = v,
                               !.alpha = RegLog(sargs.reg, u),
                               !.beta = RegLog(sargs.reg, v)]
              ELSE log
  /\ P' = ScaledPlan(u, K, v)
  /\ pc' = "done"
  /\ status' = "returned"
  /\ UNCHANGED <<args, out, calln, first, outerVars, sargs, it, err, u, v,
                 upre, vpre, alpha, beta, K, ab_updated>>

----------------------------------------------------------------------------
(* sinkhorn_stabilized *)

\* (alpha_i + beta_j - C_ij) / reg
Exponent(al, be, CC, reg, i, j) ==
  LDivReg(LAdd(LAdd(al[i], be[j]), LNeg(LFin(CC[i][j]))), reg)

\* update_K: K = exp((alpha_i + beta_j - C_ij) / reg)
update_K(al, be, CC, reg) ==
  [i \in 1..Len(CC) |-> [j \in 1..Len(CC[i]) |->
     FExp(Exponent(al, be, CC, reg, i, j))]]

\* update_P: the plan from the potentials, with log u and log v added
\* unless the potentials were updated in this iteration
update_P(al, be, uu, vv, abu, CC, reg) ==
  [i \in 1..Len(CC) |-> [j \in 1..Len(CC[i]) |->
     LET x == Exponent(al, be, CC, reg, i, j) IN
     FExp(IF abu THEN x
          ELSE LAdd(LAdd(x, LogEps(uu)[i]), LogEps(vv)[j]))]]

\* x + reg * log(y + M_EPS), elementwise
AbsorbInto(x, reg, y) == [i \in 1..Len(x) |-> LAdd(x[i], RegLog(reg, y)[i])]

\* u.abs().sum() > tau
ExceedsTau(x, tau) == FGt(FSum([i \in 1..Len(x) |-> FAbs(x[i])]), tau)

\* torch.sum(P, 0): the column sums
ColumnSums(PP) ==
  [j \in 1..Len(PP[1]) |-> FSum([i \in 1..Len(PP) |-> PP[i][j]])]

\* assertions; an inner solve's failure propagates through the caller
S_Assert ==
  /\ pc = "entry" /\ sargs.method = "sinkhorn_stabilized"
  /\ IF PreconditionsHold(sargs)
       THEN pc' = "setup" /\ status' = status
       ELSE pc' = "raised" /\ status' = "AssertionError"
  /\ UNCHANGED <<args, out, calln, first, outerVars, sargs, it, err, u, v,
                 upre, vpre, alpha, beta, K, P, ab_updated, log>>

\* log, warm start, u, v, kernel, it = 1, err = 1, ab_updated = False
S_Setup ==
  /\ pc = "setup" /\ sargs.method = "sinkhorn_stabilized"
  /\ log' = IF sargs.log THEN NewLog ELSE NoLog
  /\ IF sargs.warm_start # << >>
       THEN /\ alpha' = sargs.warm_start[1].alpha
            /\ beta' = sargs.warm_start[1].beta
       ELSE /\ alpha' = Vec(Len(sargs.C), LFin(0))
            /\ beta' = Vec(Len(sargs.C[1]), LFin(0))
  /\ u' = Uniform(Len(sargs.C))
  /\ v' = Uniform(Len(sargs.C[1]))
  /\ K' = update_K(alpha', beta', sargs.C, sargs.reg)
  /\ it' = 1
  /\ err' = Pow2(0)
  /\ ab_updated' = FALSE
  /\ pc' = "loop"
  /\ UNCHANGED <<drvVars, outerVars, sargs, upre, vpre, P>>

\* while (err > stopThr and it <= maxIter)
S_While ==
  /\ pc = "loop" /\ sargs.method = "sinkhorn_stabilized"
  /\ pc' = IF FGt(err, sargs.stopThr) /\ it <= sargs.maxIter
             THEN "update" ELSE "post"
  /\ UNCHANGED <<drvVars, outerVars, sargs, it, err, u, v, upre, vpre, alpha,
                 beta, K, P, ab_updated, log>>

\* upre, vpre = u, v; v = b / (K^T u + eps); u = a / (K v + eps)
S_Update ==
  /\ pc = "update" /\ sargs.method = "sinkhorn_stabilized"
  /\ upre' = u /\ vpre' = v
  /\ v' = DivEps(sargs.b, VecMat(u, K))
  /\ u' = DivEps(sargs.a, MatVec(K, v'))
  /\ pc' = "absorb"
  /\ UNCHANGED <<drvVars, outerVars, sargs, it, err, alpha, beta, K, P,
                 ab_updated, log>>

\* the absorption that leaves the kernel as it was
S_Absorb_StaleKernel ==
  /\ pc = "absorb" /\ sargs.method = "sinkhorn_stabilized"
  /\ IF ExceedsTau(u, sargs.tau) \/ ExceedsTau(v, sargs.tau)
       THEN /\ alpha' = AbsorbInto(alpha, sargs.reg, u)
            /\ beta' = AbsorbInto(beta, sargs.reg, v)
            /\ u' = Uniform(Len(sargs.C))
            /\ v' = Uniform(Len(sargs.C[1]))
            /\ K' = K
            /\ ab_updated' = TRUE
            /\ sargs' = IF sargs.warm_start = << >> THEN sargs
                        ELSE [sargs EXCEPT !.warm_start[1].alpha = alpha',
                                           !.warm_start[1].beta = beta']
       ELSE /\ ab_updated' = FALSE
            /\ UNCHANGED <<alpha, beta, u, v, K, sargs>>
  /\ pc' = "eval"
  /\ UNCHANGED <<drvVars, outerVars, it, err, upre, vpre, P, log>>

\* the absorption of u, v into alpha, beta when one of them exceeds tau;
\* alpha += ... updates the warm start's tensors in place
S_Absorb ==
  /\ pc = "absorb" /\ sargs.method = "sinkhorn_stabilized"
  /\ IF ExceedsTau(u, sargs.tau) \/ ExceedsTau(v, sargs.tau)
       THEN /\ alpha' = AbsorbInto(alpha, sargs.reg, u)
            /\ beta' = AbsorbInto(beta, sargs.reg, v)
            /\ u' = Uniform(Len(sargs.C))
            /\ v' = Uniform(Len(sargs.C[1]))
            /\ K' = update_K(alpha', beta', sargs.C, sargs.reg)
            /\ ab_updated' = TRUE
            /\ sargs' = IF sargs.warm_start = << >> THEN sargs
                        ELSE [sargs EXCEPT !.warm_start[1].alpha = alpha',
                                           !.warm_start[1].beta = beta']
       ELSE /\ ab_updated' = FALSE
            /\ UNCHANGED <<alpha, beta, u, v, K, sargs>>
  /\ pc' = "eval"
  /\ UNCHANGED <<drvVars, outerVars, it, err, upre, vpre, P, log>>

\* the residual of the plan update_P builds, every eval_freq iterations
S_Eval ==
  /\ pc = "eval" /\ sargs.method = "sinkhorn_stabilized"
  /\ IF EvalDue
       THEN /\ P' = update_P(alpha, beta, u, v, ab_updated, sargs.C,
                             sargs.reg)
            /\ err' = SquaredResidual(sargs.b, ColumnSums(P'))
            /\ log' = [log EXCEPT !.err = Append(@, err')]
       ELSE UNCHANGED <<P, err, log>>
  /\ pc' = "print"
  /\ UNCHANGED <<drvVars, outerVars, sargs, it, u, v, upre, vpre, alpha, beta,
                 K, ab_updated>>

\* the progress line, every print_freq iterations
S_Print ==
  /\ pc = "print" /\ sargs.method = "sinkhorn_stabilized"
  /\ out' = IF PrintDue THEN Append(out, [line |-> "iteration", it |-> it])
            ELSE out
  /\ pc' = "incr"
  /\ UNCHANGED <<args, status, calln, first, outerVars, sargs, it, err, u, v,
                 upre, vpre, alpha, beta, K, P, ab_updated, log>>

\* it += 1
S_Incr ==
  /\ pc = "incr" /\ sargs.method = "sinkhorn_stabilized"
  /\ it' = it + 1
  /\ pc' = "loop"
  /\ UNCHANGED <<drvVars, outerVars, sargs, err, u, v, upre, vpre, alpha,
                 beta, K, P, ab_updated, log>>

\* the log's u, v, alpha, beta; update_P(alpha, beta, u, v, False); return
S_Finish ==
  /\ pc = "post" /\ sargs.method = "sinkhorn_stabilized"
  /\ log' = IF log.on
              THEN [log EXCEPT !.u = u, !.v = v,
                               !.alpha = AbsorbInto(alpha, sargs.reg, u),
                               !.beta = AbsorbInto(beta, sargs.reg, v)]
              ELSE log
  /\ P' = update_P(alpha, beta, u, v, FALSE, sargs.C, sargs.reg)
  /\ pc' = "done"
  /\ status' = IF args.method = "sinkhorn_stabilized" THEN "returned"
               ELSE status
  /\ UNCHANGED <<args, out, calln, first, outerVars, sargs, it, err, u, v,
                 upre, vpre, alpha, beta, K, ab_updated>>

----------------------------------------------------------------------------
(* sinkhorn_epsilon_scaling *)

\* C.max()
MaxEntry(CC) ==
  CHOOSE m \in {CC[i][j] : i \in 1..Len(CC), j \in 1..Len(CC[1])} :
    \A i \in 1..Len(CC) : \A j \in 1..Len(CC[1]) : CC[i][j] <= m

\* x * scaling_base < M_EPS, for x a whole number of units of the additive
\* scale and scaling_base = base[1] / base[2]: M_EPS is less than 1 / base[2]
BelowMEps(x, base) == x * base[1] <= 0

\* get_reg scaling the previous value instead of its distance to reg
get_reg_NoOffset(itn, reg, pre_reg, coef, base) ==
  IF itn = 1 THEN coef
  ELSE IF BelowMEps(pre_reg - reg, base) THEN reg
  ELSE (pre_reg * base[1]) \div base[2] + reg

\* get_reg
get_reg(itn, reg, pre_reg, coef, base) ==
  IF itn = 1 THEN coef
  ELSE IF BelowMEps(pre_reg - reg, base) THEN reg
  ELSE ((pre_reg - reg) * base[1]) \div base[2] + reg

\* the sum of all entries of a matrix, row after row
MatSum(MM) == FSum([i \in 1..Len(MM) |-> FSum(MM[i])])

\* sum of x[i] * y[i], x on the additive and y on the multiplicative scale
Pairing(x, y) == FSum([i \in 1..Len(x) |-> FMul(FOfL(x[i]), y[i])])

\* primal_val - dual_val, at the target reg
DualityGap(CC, PP, reg, al, be, aa, bb) ==
  LET n == Len(PP)
      m == Len(PP[1])
      CP == [i \in 1..n |-> [j \in 1..m |->
               FMul(FOfL(LFin(CC[i][j])), PP[i][j])]]
      PlogP == [i \in 1..n |-> [j \in 1..m |->
               FMul(PP[i][j], FOfL(FLog(PP[i][j])))]]
      r == FOfL(LFin(reg))
      mass == FMul(r, MatSum(PP))
      primal_val == FSub(FAdd(MatSum(CP), FMul(r, MatSum(PlogP))), mass)
      dual_val == FSub(FAdd(Pairing(al, aa), Pairing(be, bb)), mass)
  IN FSub(primal_val, dual_val)

\* assertions
E_Assert ==
  /\ opc = "entry"
  /\ IF PreconditionsHold(args)
       THEN opc' = "setup" /\ status' = status
       ELSE opc' = "raised" /\ status' = "AssertionError"
  /\ UNCHANGED <<args, out, calln, first, oit, oerr, running_reg,
                 scaling_coef, owarm, olog, oP, ilog, nsolves, solverVars>>

\* scaling_coef, it = 1, err = 1, running_reg, log, warm_start = None
E_Setup ==
  /\ opc = "setup"
  /\ scaling_coef' = IF args.scaling_coef = << >>
                       THEN MaxEntry(args.C) + args.reg
                       ELSE args.scaling_coef[1]
  /\ oit' = 1
  /\ oerr' = Pow2(0)
  /\ running_reg' = scaling_coef'
  /\ olog' = IF args.log THEN NewLog ELSE NoLog
  /\ owarm' = << >>
  /\ opc' = "loop"
  /\ UNCHANGED <<drvVars, oP, ilog, nsolves, solverVars>>

\* while (err > stopThr and it <= maxIter)
E_While ==
  /\ opc = "loop"
  /\ opc' = IF FGt(oerr, args.stopThr) /\ oit <= args.maxIter
              THEN "getreg" ELSE "post"
  /\ UNCHANGED <<drvVars, oit, oerr, running_reg, scaling_coef, owarm, olog,
                 oP, ilog, nsolves, solverVars>>

\* running_reg = get_reg(it, reg, running_reg)
E_GetReg ==
  /\ opc = "getreg"
  /\ running_reg' = get_reg(oit, args.reg, running_reg, scaling_coef,
                            args.scaling_base)
  /\ opc' = "call"
  /\ UNCHANGED <<drvVars, oit, oerr, scaling_coef, owarm, olog, oP, ilog,
                 nsolves, solverVars>>

\* the call of sinkhorn_stabilized at running_reg, from the warm start
E_Call ==
  /\ opc = "call"
  /\ sargs' = [args EXCEPT !.method = "sinkhorn_stabilized",
                           !.reg = running_reg,
                           !.maxIter = args.maxInnerIter,
                           !.verbose = FALSE,
                           !.log = TRUE,
                           !.warm_start = owarm]
  /\ pc' = "entry"
  /\ it' = 0 /\ err' = FZero
  /\ u' = << >> /\ v' = << >> /\ upre' = << >> /\ vpre' = << >>
  /\ alpha' = << >> /\ beta' = << >> /\ K' = << >> /\ P' = << >>
  /\ ab_updated' = FALSE
  /\ log' = NoLog
  /\ opc' = "wait"
  /\ UNCHANGED <<drvVars, oit, oerr, running_reg, scaling_coef, owarm, olog,
                 oP, ilog, nsolves>>

\* P, _log = ...; warm_start = {alpha, beta} of _log
E_Return ==
  /\ opc = "wait" /\ pc = "done"
  /\ oP' = P
  /\ ilog' = <<log>>
  /\ owarm' = <<[u |-> << >>, v |-> << >>,
                 alpha |-> log.alpha, beta |-> log.beta]>>
  /\ nsolves' = nsolves + 1
  /\ pc' = "idle"
  /\ opc' = "gap"
  /\ UNCHANGED <<drvVars, oit, oerr, running_reg, scaling_coef, olog, sargs,
                 it, err, u, v, upre, vpre, alpha, beta, K, P, ab_updated,
                 log>>

\* err = primal_val - dual_val; log['err'].append(err), which raises
\* TypeError when log is False
E_Gap ==
  /\ opc = "gap"
  /\ oerr' = DualityGap(args.C, oP, args.reg, ilog[1].alpha, ilog[1].beta,
                        args.a, args.b)
  /\ IF olog.on
       THEN /\ olog' = [olog EXCEPT !.err = Append(@, oerr')]
            /\ opc' = "print"
            /\ status' = status
       ELSE /\ olog' = olog
            /\ opc' = "raised"
            /\ status' = "TypeError"
  /\ UNCHANGED <<args, out, calln, first, oit, running_reg, scaling_coef,
                 owarm, oP, ilog, nsolves, solverVars>>

\* the progress line, every print_freq iterations
E_Print ==
  /\ opc = "print"
  /\ out' = IF args.verbose /\ oit % args.print_freq = 0
              THEN Append(out, [line |-> "iteration", it |-> oit])
              ELSE out
  /\ opc' = "incr"
  /\ UNCHANGED <<args, status, calln, first, oit, oerr, running_reg,
                 scaling_coef, owarm, olog, oP, ilog, nsolves, solverVars>>

\* it += 1
E_Incr ==
  /\ opc = "incr"
  /\ oit' = oit + 1
  /\ opc' = "loop"
  /\ UNCHANGED <<drvVars, oerr, running_reg, scaling_coef, owarm, olog, oP,
                 ilog, nsolves, solverVars>>

\* the log's alpha, beta from _log and return P, log; else return P.
\* _log and P are unbound when the loop body never ran
E_Finish ==
  /\ opc = "post"
  /\ IF olog.on
       THEN IF ilog = << >>
              THEN /\ status' = "UnboundLocalError" /\ opc' = "raised"
                   /\ olog' = olog
              ELSE /\ status' = "returned" /\ opc' = "done"
                   /\ olog' = [olog EXCEPT !.alpha = ilog[1].alpha,
                                           !.beta = ilog[1].beta]
       ELSE /\ olog' = olog
            /\ IF oP = << >>
                 THEN status' = "UnboundLocalError" /\ opc' = "raised"
                 ELSE status' = "returned" /\ opc' = "done"
  /\ UNCHANGED <<args, out, calln, first, oit, oerr, running_reg,
                 scaling_coef, owarm, oP, ilog, nsolves, solverVars>>

----------------------------------------------------------------------------
(* The inputs of a call *)

\* sizes of the cost matrix: 1..MaxDim
MaxDim == 2
\* iteration budgets: maxIter is 1 or MaxIterBound, maxInnerIter MaxInner
MaxIterBound == 3
MaxInner == 2
\* off-diagonal costs: one the kernel represents, one it underflows on
SmallCost == 2
BigCost == 400

Methods == {"sinkhorn_knopp", "sinkhorn_stabilized",
            "sinkhorn_epsilon_scaling"}

Half == Pow2(-1)
Huge == Pow2(MaxExp)
Negative == Fl(-1, -1)

\* n x m cost matrix, d on the diagonal and c off it
Cost(n, m, d, c) == [i \in 1..n |-> [j \in 1..m |-> IF i = j THEN d ELSE c]]

\* the inputs that satisfy the preconditions
ValidProblems ==
  {[C |-> Cost(n, n, dc[1], dc[2]), a |-> Vec(n, mm[1]),
    b |-> Vec(n, mm[2])] :
     n \in 1..MaxDim,
     dc \in {<<0, SmallCost>>, <<0, BigCost>>, <<BigCost, BigCost>>},
     mm \in {<<Half, Half>>, <<Huge, Huge>>, <<FZero, Half>>}}

\* empty or mismatched shapes, negative mass
MalformedProblems ==
  {[C |-> << >>, a |-> Vec(1, Half), b |-> Vec(1, Half)],
   [C |-> << << >> >>, a |-> Vec(1, Half), b |-> << >>],
   [C |-> Cost(1, 1, 0, 0), a |-> Vec(2, Half), b |-> Vec(1, Half)],
   [C |-> Cost(2, 2, 0, SmallCost), a |-> Vec(2, Half), b |-> Vec(1, Half)],
   [C |-> Cost(2, 2, 0, SmallCost), a |-> Vec(2, Negative), b |-> Vec(2, Half)],
   [C |-> Cost(2, 2, 0, SmallCost), a |-> Vec(2, Half),
    b |-> <<Half, Negative>>]}

StopThrs == {Pow2(-30), Pow2(0)}
Taus == {Pow2(-2), Pow2(10)}
Freqs == {1, 2}
ScalingBases == {<<1, 2>>, <<3, 4>>}
ScalingCoefs == {<< >>, <<1>>, <<3>>}

\* a warm start of the shape of the problem
WarmStart(pr, given) ==
  IF given
    THEN <<[u |-> Vec(Len(pr.a), Pow2(0)), v |-> Vec(Len(pr.b), Pow2(0)),
            alpha |-> Vec(Len(pr.a), LFin(1)),
            beta |-> Vec(Len(pr.b), LFin(0))]>>
    ELSE << >>

\* the arguments of a call, with the signatures' defaults brought to the
\* units and bounds of the model
Call(method, pr) ==
  [method |-> method, a |-> pr.a, b |-> pr.b, C |-> pr.C, reg |-> 1,
   maxIter |-> MaxIterBound, maxInnerIter |-> MaxInner, tau |-> Pow2(10),
   scaling_base |-> <<3, 4>>, scaling_coef |-> << >>,
   stopThr |-> Pow2(-30), verbose |-> FALSE, log |-> FALSE,
   warm_start |-> << >>, eval_freq |-> 1, print_freq |-> 2]

SolverCalls ==
  {[Call(m, pr) EXCEPT !.reg = r, !.maxIter = mi, !.stopThr = st,
                       !.tau = IF m = "sinkhorn_knopp" THEN Pow2(10) ELSE t,
                       !.verbose = vb, !.log = lg,
                       !.warm_start = WarmStart(pr, ws),
                       !.eval_freq = ef] :
     m \in {"sinkhorn_knopp", "sinkhorn_stabilized"}, pr \in ValidProblems,
     r \in {1, 2}, mi \in {1, MaxIterBound}, st \in StopThrs, t \in Taus,
     vb \in BOOLEAN, lg \in BOOLEAN, ws \in BOOLEAN, ef \in Freqs}

ScalingCalls ==
  {[Call("sinkhorn_epsilon_scaling", pr) EXCEPT
       !.reg = r, !.maxIter = mi, !.stopThr = st, !.tau = t, !.verbose = vb,
       !.log = lg, !.scaling_base = sb, !.scaling_coef = sc] :
     pr \in ValidProblems, r \in {1, 2}, mi \in {1, MaxIterBound},
     st \in StopThrs, t \in Taus, vb \in BOOLEAN, lg \in BOOLEAN,
     sb \in ScalingBases, sc \in ScalingCoefs}

MalformedCalls ==
  {[Call(m, pr) EXCEPT !.log = lg] :
     m \in Methods, pr \in MalformedProblems, lg \in BOOLEAN}
  \cup
  {[Call(m, pr) EXCEPT !.reg = 0, !.log = lg] :
     m \in Methods, pr \in ValidProblems, lg \in BOOLEAN}

----------------------------------------------------------------------------
(* The caller *)

\* the state at the entry of the call with arguments A
Enter(A) ==
  /\ args = A
  /\ status = "running"
  /\ out = << >>
  /\ opc = IF A.method = "sinkhorn_epsilon_scaling" THEN "entry" ELSE "none"
  /\ oit = 0 /\ oerr = FZero /\ running_reg = 0 /\ scaling_coef = 0
  /\ owarm = << >> /\ olog = NoLog /\ oP = << >> /\ ilog = << >>
  /\ nsolves = 0
  /\ sargs = A
  /\ pc = IF A.method = "sinkhorn_epsilon_scaling" THEN "idle" ELSE "entry"
  /\ it = 0 /\ err = FZero
  /\ u = << >> /\ v = << >> /\ upre = << >> /\ vpre = << >>
  /\ alpha = << >> /\ beta = << >> /\ K = << >> /\ P = << >>
  /\ ab_updated = FALSE
  /\ log = NoLog

Init ==
  /\ \E A \in SolverCalls \cup ScalingCalls \cup MalformedCalls : Enter(A)
  /\ calln = 1
  /\ first = << >>

Next ==
  \/ K_Assert \/ K_Setup \/ K_While \/ K_Update \/ K_NanCheck \/ K_Eval
  \/ K_Print \/ K_Incr \/ K_Finish
  \/ S_Assert \/ S_Setup \/ S_While \/ S_Update \/ S_Absorb \/ S_Eval
  \/ S_Print \/ S_Incr \/ S_Finish
  \/ E_Assert \/ E_Setup \/ E_While \/ E_GetReg \/ E_Call \/ E_Return
  \/ E_Gap \/ E_Print \/ E_Incr \/ E_Finish

Spec == Init /\ [][Next]_vars

----------------------------------------------------------------------------
(* A caller that repeats a call with another log, eval_freq or print_freq *)

\* the plan the call returns
Returned == IF args.method = "sinkhorn_epsilon_scaling" THEN oP ELSE P

\* the loop counter of the call
Counter == IF args.method = "sinkhorn_epsilon_scaling" THEN oit ELSE it

Outcome ==
  [args |-> args, status |-> status, it |-> Counter, P |-> Returned,
   u |-> u, v |-> v, alpha |-> alpha, beta |-> beta, out |-> out]

Variants(A) ==
  {[A EXCEPT !.log = ~A.log]}
  \cup {[A EXCEPT !.eval_freq = f] : f \in Freqs \ {A.eval_freq}}
  \cup {[A EXCEPT !.print_freq = f] : f \in Freqs \ {A.print_freq}}

PairCalls ==
  {[Call(m, pr) EXCEPT
       !.tau = IF m = "sinkhorn_knopp" THEN Pow2(10) ELSE t,
       !.verbose = vb, !.log = lg, !.eval_freq = ef, !.print_freq = pf] :
     m \in Methods, pr \in ValidProblems, t \in Taus, vb \in BOOLEAN,
     lg \in BOOLEAN, ef \in Freqs, pf \in Freqs}

\* the next state is the entry of the call with arguments A
Reenter(A) ==
  /\ args' = A
  /\ status' = "running"
  /\ out' = << >>
  /\ opc' = IF A.method = "sinkhorn_epsilon_scaling" THEN "entry" ELSE "none"
  /\ oit' = 0 /\ oerr' = FZero /\ running_reg' = 0 /\ scaling_coef' = 0
  /\ owarm' = << >> /\ olog' = NoLog /\ oP' = << >> /\ ilog' = << >>
  /\ nsolves' = 0
  /\ sargs' = A
  /\ pc' = IF A.method = "sinkhorn_epsilon_scaling" THEN "idle" ELSE "entry"
  /\ it' = 0 /\ err' = FZero
  /\ u' = << >> /\ v' = << >> /\ upre' = << >> /\ vpre' = << >>
  /\ alpha' = << >> /\ beta' = << >> /\ K' = << >> /\ P' = << >>
  /\ ab_updated' = FALSE
  /\ log' = NoLog

SecondCall ==
  /\ calln = 1
  /\ status # "running"
  /\ first' = <<Outcome>>
  /\ calln' = 2
  /\ \E B \in Variants(args) : Reenter(B)

InitPair ==
  /\ \E A \in PairCalls : Enter(A)
  /\ calln = 1
  /\ first = << >>

NextPair == Next \/ SecondCall

SpecPair == InitPair /\ [][NextPair]_vars

----------------------------------------------------------------------------
(* Properties *)

IsNegative(x) == x.k \in {"fin", "inf"} /\ x.s = -1

\* the inputs the claim C1 lists: an empty or mismatched shape, reg <= 0,
\* a negative entry of a or b
Malformed(A) ==
  \/ Len(A.C) < 1
  \/ Len(A.C) >= 1 /\ Len(A.C[1]) < 1
  \/ Len(A.a) # Len(A.C)
  \/ Len(A.C) >= 1 /\ Len(A.b) # Len(A.C[1])
  \/ A.reg <= 0
  \/ \E i \in 1..Len(A.a) : IsNegative(A.a[i])
  \/ \E j \in 1..Len(A.b) : IsNegative(A.b[j])

\* no scaling vector, kernel, plan or inner solve exists yet
NothingComputed ==
  /\ u = << >> /\ v = << >> /\ K = << >> /\ P = << >> /\ oP = << >>
  /\ alpha = << >> /\ beta = << >>
  /\ it = 0 /\ oit = 0 /\ nsolves = 0
  /\ pc \in {"entry", "idle", "raised"}
  /\ opc \in {"none", "entry", "raised"}

\* C1: a call of any of the three solvers on malformed input (empty or
\* mismatched shapes, reg <= 0, negative mass) ends in the assertion
\* failure, with no scaling-vector update, kernel or inner solve performed
\* and no plan returned.
C1_PreconditionFailsFirst ==
  Malformed(args) =>
    /\ status \in {"running", "AssertionError"}
    /\ NothingComputed
    /\ (status = "running" =>
          pc = "entry" \/ (pc = "idle" /\ opc = "entry"))

C1_Witness ==
  /\ status = "AssertionError"
  /\ args.reg > 0
  /\ \E j \in 1..Len(args.b) : IsNegative(args.b[j])
  /\ args.method = "sinkhorn_epsilon_scaling"

HasNonFinite(x) == \E i \in 1..Len(x) : x[i].k \in {"nan", "inf"}

InKnopp == sargs.method = "sinkhorn_knopp"

InStabilized == sargs.method = "sinkhorn_stabilized"

\* C2: in sinkhorn_knopp, when the update of an iteration leaves a NaN or
\* an infinity in u or v, the next step restores the u, v of the start of
\* that iteration (upre, vpre, which the update saved) and leaves the loop
\* with no error evaluation and no increment; the exit then returns
\* P = diag(u) K diag(v) of the restored u, v and raises nothing.
C2_KnoppRollsBack ==
  [][/\ (InKnopp /\ pc = "update") => (upre' = u /\ vpre' = v)
     /\ (InKnopp /\ pc = "nancheck" /\ (HasNonFinite(u) \/ HasNonFinite(v)))
          => /\ u' = upre /\ v' = vpre
             /\ pc' = "post"
             /\ it' = it /\ err' = err /\ log' = log
             /\ status' = "running"
     /\ (InKnopp /\ pc = "post")
          => /\ status' = "returned"
             /\ u' = u /\ v' = v
             /\ P' = [i \in 1..Len(K) |-> [j \in 1..Len(K[i]) |->
                        FMul(FMul(u[i], K[i][j]), v[j])]]
    ]_vars

C2_Witness ==
  /\ InKnopp /\ status = "returned"
  /\ out # << >> /\ out[Len(out)].line = "warning"
  /\ u = upre /\ v = vpre
  /\ ~HasNonFinite(u) /\ ~HasNonFinite(v)
  /\ Len(u) = 2

HasNonFiniteL(x) == \E i \in 1..Len(x) : x[i].k # "fin"

\* C3: in sinkhorn_stabilized the loop never goes on, and nothing is
\* absorbed into alpha, beta, with a NaN or an infinity in u or v: past the
\* update of an iteration u, v, alpha and beta are finite.
C3_StabilizedRollsBack ==
  (InStabilized /\ pc \in {"absorb", "eval", "print", "incr", "post",
                           "done"})
    => /\ ~HasNonFinite(u) /\ ~HasNonFinite(v)
       /\ ~HasNonFiniteL(alpha) /\ ~HasNonFiniteL(beta)

\* x <= y; false when either is NaN
FLe(x, y) == x.k # "nan" /\ y.k # "nan" /\ ~FGt(x, y)

InScaling == args.method = "sinkhorn_epsilon_scaling"

\* C4: when sinkhorn_epsilon_scaling returns, its last duality gap is at
\* most stopThr or exactly maxIter inner solves were performed.
C4_GapOrBudget ==
  (InScaling /\ status = "returned")
    => FLe(oerr, args.stopThr) \/ nsolves = args.maxIter

\* C7: on input that satisfies the preconditions, a call of
\* sinkhorn_epsilon_scaling that has ended has performed an inner solve and
\* did not end on an unbound P or _log.
C7_OneInnerSolve ==
  (InScaling /\ ~Malformed(args) /\ status # "running")
    => nsolves >= 1 /\ status # "UnboundLocalError"

\* exp((al_i + be_j - C_ij) / reg)
PlanOfPotentials(al, be) ==
  [i \in 1..Len(sargs.C) |-> [j \in 1..Len(sargs.C[i]) |->
     FExp(LDivReg(LAdd(LAdd(al[i], be[j]), LFin(-sargs.C[i][j])),
                  sargs.reg))]]

\* the last iteration of the loop evaluated the residual
LastIterationEvaluated ==
  log.on /\ it > 1 /\ (it - 1) % sargs.eval_freq = 0

\* C8: at the exit of sinkhorn_stabilized after an iteration that evaluated
\* the residual, the plan returned equals the plan that evaluation built,
\* and the reported alpha, beta reproduce it as
\* exp((alpha_i + beta_j - C_ij) / reg), absorption or not.
C8_AbsorptionKeepsPlan ==
  [][(InStabilized /\ pc = "post" /\ LastIterationEvaluated)
       => /\ P' = P
          /\ P' = PlanOfPotentials(log'.alpha, log'.beta)
    ]_vars

\* started, neither failed nor finished setting up
InLoopOrAfter == pc \in {"loop", "update", "absorb", "eval", "print", "incr",
                         "post", "done"}

\* C9: in sinkhorn_stabilized, from the first loop test to the exit,
\* K_ij = exp((alpha_i + beta_j - C_ij) / reg) for the current alpha, beta;
\* alpha and beta change only in the absorption step, which rebuilds K.
C9_KernelConsistent ==
  /\ [](InStabilized /\ InLoopOrAfter => K = PlanOfPotentials(alpha, beta))
  /\ [][(InStabilized /\ InLoopOrAfter /\ <<alpha, beta>>' # <<alpha, beta>>)
          => /\ pc = "absorb" /\ pc' = "eval"
             /\ ab_updated'
             /\ K' = PlanOfPotentials(alpha', beta')
       ]_vars

C9_Witness ==
  /\ InStabilized /\ pc = "loop" /\ it = 3
  /\ ab_updated
  /\ sargs.warm_start # << >>
  /\ alpha # Vec(Len(alpha), LFin(1))
  /\ Len(alpha) = 2

\* the scaling coefficient in force: the argument, or max(C) + reg
CoefInForce ==
  IF args.scaling_coef # << >> THEN args.scaling_coef[1]
  ELSE args.reg + MaxEntry(args.C)

\* C10: the first inner solve runs at scaling_coef (max(C) + reg by
\* default), each later one at reg + (previous - reg) * scaling_base, or at
\* reg when (previous - reg) * scaling_base is below M_EPS; for
\* scaling_coef >= reg and 0 < scaling_base < 1 the running_reg values never
\* increase, never fall below reg, and stay reg once they are reg.
C10_Schedule ==
  [][LET num == args.scaling_base[1]
         den == args.scaling_base[2]
         d == (running_reg - args.reg) * num
     IN
     /\ (opc = "getreg" /\ oit = 1) => running_reg' = CoefInForce
     /\ (opc = "getreg" /\ oit > 1)
          => running_reg' = IF d < 1 THEN args.reg
                            ELSE args.reg + d \div den
     /\ opc = "call" => sargs'.reg = running_reg /\ running_reg' = running_reg
     /\ (opc = "getreg" /\ oit > 1 /\ CoefInForce >= args.reg /\ 0 < num
           /\ num < den)
          => /\ running_reg' <= running_reg
             /\ running_reg' >= args.reg
             /\ (running_reg = args.reg => running_reg' = args.reg)
     /\ (opc # "getreg" /\ oit >= 1) => running_reg' = running_reg
    ]_vars

C10_Witness ==
  /\ InScaling /\ opc = "call" /\ oit = 3
  /\ running_reg = args.reg
  /\ CoefInForce > args.reg + 1
  /\ args.scaling_coef = << >>

\* the second call is over and the first differed from it in field f only
OnlyLogDiffers ==
  /\ calln = 2 /\ status # "running"
  /\ first[1].args.log # args.log
  /\ first[1].args = [args EXCEPT !.log = first[1].args.log]

OnlyEvalFreqDiffers ==
  /\ calln = 2 /\ status # "running"
  /\ first[1].args.eval_freq # args.eval_freq
  /\ first[1].args = [args EXCEPT !.eval_freq = first[1].args.eval_freq]

OnlyPrintFreqDiffers ==
  /\ calln = 2 /\ status # "running"
  /\ first[1].args.print_freq # args.print_freq
  /\ first[1].args = [args EXCEPT !.print_freq = first[1].args.print_freq]

\* the two calls ended alike: same iterations, u, v, alpha, beta and P
SameRun ==
  /\ first[1].status = status
  /\ first[1].it = Counter
  /\ first[1].u = u /\ first[1].v = v
  /\ first[1].alpha = alpha /\ first[1].beta = beta
  /\ first[1].P = Returned

\* C5 as stated: two runs of sinkhorn_knopp or sinkhorn_stabilized that
\* differ only in eval_freq or only in print_freq perform the same number
\* of iterations and return the same u, v, alpha, beta and P.
C5_FreqsObservational ==
  (args.method # "sinkhorn_epsilon_scaling"
     /\ (OnlyEvalFreqDiffers \/ OnlyPrintFreqDiffers))
    => SameRun

\* C5 amended: two runs of sinkhorn_knopp or sinkhorn_stabilized that
\* differ only in print_freq perform the same number of iterations and
\* return the same u, v, alpha, beta and P.
C5_PrintFreqObservational ==
  (args.method # "sinkhorn_epsilon_scaling" /\ OnlyPrintFreqDiffers)
    => SameRun

C5_Witness ==
  /\ args.method = "sinkhorn_stabilized" /\ OnlyPrintFreqDiffers
  /\ status = "returned"
  /\ out # first[1].out
  /\ Counter = MaxIterBound + 1
  /\ log.on

\* C6: on valid input a call with log=False returns, as the call with
\* log=True does, and returns the same plan after the same number of
\* iterations.
C6_LogOptional ==
  OnlyLogDiffers
    => /\ status = "returned" /\ first[1].status = "returned"
       /\ first[1].P = Returned
       /\ first[1].it = Counter

=============================================================================
